---- MODULE Spec2Model ----
(***************************************************************************)
(* Model of the OCR comparison service: the task registry and the         *)
(* background pipeline workers of OCRComparisonService                     *)
(* (app/services/comparison.py), the HTTP handlers that drive them         *)
(* (app/api/routes.py), the consensus selection, alignment and accuracy   *)
(* of TextAlignmentService (app/services/alignment.py, over difflib's     *)
(* SequenceMatcher) and the engines' initialization state                  *)
(* (app/models/base_provider.py).                                          *)
(*                                                                         *)
(* A text is a sequence of one-character strings.  A Python Optional is a  *)
(* sequence of length 0 (None / key absent) or 1; an Optional[str] is the  *)
(* string None or the message.                                             *)
(***************************************************************************)
EXTENDS Integers, Sequences, FiniteSets, TLC

\* ------------------------------------------------------------- bounds
\* Number of uploads (each gets a fresh uuid4 task id).
MaxTasks == 1
\* Number of POST /process requests issued over a run.
MaxProcess == 2
\* Number of engines registered when the fan-out itself is examined.
MaxProviders == 3
\* Pure-function inputs: longest generated text, longest result list.
MaxTextLen == 2
MaxResults == 3
\* Longest generated text handed to the aligner.
MaxAlignLen == 3
\* initialize() invocations counted per engine; the count stops there.
MaxInitCalls == 2
\* Longest generated text of an engine when two runs are set side by side.
MaxTwoRunLen == 1
\* Longest generated text handed to the line-level merge.
MaxMergeLen == 2

\* ------------------------------------------------------------- values
None == "None"

TaskIds == 1..MaxTasks

NoFile == "NoFile"

FileNames == {"doc.pdf"}

\* Engines in the order main.py's lifespan() appends them.
AllProviders == <<"PP-StructureV3", "Tesseract", "EasyOCR", "DeepSeek", "OLMoCR">>

\* The registry model runs with the first two engines enabled (ENABLE_* flags).
RegistryProviders == <<"PP-StructureV3", "Tesseract">>

\* What each engine reads off the uploaded document in the registry model.
OcrOutputs(name) == IF name = "PP-StructureV3" THEN {<<"a", "b">>} ELSE {<<"a">>}

\* Texts an engine may return when the fan-out itself is examined ("" is legal).
RunAllTexts == {<<>>, <<"a">>, <<"a", "b">>}

\* Wall-clock durations process() may measure.
Durations == {1}

\* Where the pipeline can break outside the per-engine try/except.
PipelineStages == {"alignment", "statistics", "response"}

EngineNames == {AllProviders[i] : i \in 1..Len(AllProviders)}

\* A provider that lifespan() did not build.
EngineNotBuilt == [is_initialized |-> FALSE, init_calls |-> 0]

\* A provider after __init__ and initialize_providers(): initialize() was
\* called once and is_initialized was left as __init__ set it.
EngineAfterStartup == [is_initialized |-> FALSE, init_calls |-> 1]

\* Lines 65-67 of process(): initialize() is called when is_initialized is
\* False; the flag is set when it returns and stays when it raises.
InitializedCheck(e, init_ok) ==
    IF e.is_initialized THEN e
    ELSE [is_initialized |-> init_ok,
          init_calls |-> IF e.init_calls < MaxInitCalls THEN e.init_calls + 1
                         ELSE MaxInitCalls]

VARIABLES providers, engines, files, issued, tasks, workers, fn_in, fn_out

vars == <<providers, engines, files, issued, tasks, workers, fn_in, fn_out>>

\* ------------------------------------------------------------- helpers
RECURSIVE SeqsUpTo(_, _)
SeqsUpTo(S, n) ==
    IF n = 0 THEN {<<>>}
    ELSE LET shorter == SeqsUpTo(S, n - 1)
         IN  shorter \cup {Append(s, x) : s \in {q \in shorter : Len(q) = n - 1}, x \in S}

\* The engine lists lifespan() can register: AllProviders with some ENABLE_* flags
\* off, in the same order, never empty (RuntimeError otherwise).
Registrations ==
    LET idx == {s \in SeqsUpTo(1..Len(AllProviders), MaxProviders) :
                  /\ s # <<>>
                  /\ \A i \in 1..(Len(s) - 1) : s[i] < s[i + 1]}
    IN  {[i \in 1..Len(s) |-> AllProviders[s[i]]] : s \in idx}

\* ------------------------------------------------------------- schemas
RawOCRResult(name, text, time, error) ==
    [provider_name |-> name, text |-> text, processing_time |-> time, error |-> error]

\* The dict process_document stores under tasks[task_id].
NewTask(filename) ==
    [status |-> "processing", filename |-> filename, result |-> <<>>, error |-> None]

\* One unit of the fan-out: what awaiting provider.process() gave.
PendingUnit == [st |-> "pending", text |-> <<>>, time |-> 0, error |-> None]

ReturnedUnit(text, time) == [st |-> "returned", text |-> text, time |-> time, error |-> None]

RaisedUnit(msg) == [st |-> "raised", text |-> <<>>, time |-> 0, error |-> msg]

\* A unit whose engine call was entered and never ends.
StalledUnit == [st |-> "stalled", text |-> <<>>, time |-> 0, error |-> None]

\* ------------------------------------------------------------- orchestration
run_single_ocr_swallow(name, unit) ==
    RawOCRResult(name, unit.text, unit.time, None)

\* _run_single_ocr: the try/except around provider.process().
run_single_ocr(name, unit) ==
    IF unit.st = "returned"
    THEN RawOCRResult(name, unit.text, unit.time, None)
    ELSE RawOCRResult(name, <<>>, 0, unit.error)

run_all_ocr_reversed(provs, units) ==
    [i \in 1..Len(provs) |->
        run_single_ocr(provs[Len(provs) + 1 - i], units[Len(provs) + 1 - i])]

\* _run_all_ocr after the gather: zip(self.providers, results), in order.
run_all_ocr(provs, units) ==
    [i \in 1..Len(provs) |-> run_single_ocr(provs[i], units[i])]

\* ------------------------------------------------------------- consensus
NonEmptyText(x) == x # <<>>

RECURSIVE max_by_len_last(_, _)
max_by_len_last(texts, best) ==
    IF texts = <<>> THEN best
    ELSE max_by_len_last(Tail(texts),
                         IF Len(Head(texts)) >= Len(best) THEN Head(texts) ELSE best)

\* max(texts, key=len) continued from the running maximum best: a later text
\* replaces it only when strictly longer.
RECURSIVE max_by_len(_, _)
max_by_len(texts, best) ==
    IF texts = <<>> THEN best
    ELSE max_by_len(Tail(texts),
                    IF Len(Head(texts)) > Len(best) THEN Head(texts) ELSE best)

\* find_consensus_text
find_consensus_text(results) ==
    IF results = <<>> THEN <<>>
    ELSE LET texts == SelectSeq([i \in 1..Len(results) |-> results[i].text], NonEmptyText)
         IN  IF texts = <<>> THEN <<>>
             ELSE max_by_len(Tail(texts), Head(texts))

\* ------------------------------------------------------------- alignment
\* Offsets are Python's (0-based); a text is a 1-based sequence.
\* Python's s[lo:hi].
Slice(s, lo, hi) == SubSeq(s, lo + 1, hi)

\* Python's s[i].
At(s, i) == s[i + 1]

SetMax(S) == CHOOSE x \in S : \A y \in S : y <= x

SetMin(S) == CHOOSE x \in S : \A y \in S : x <= y

\* One pass of find_longest_match's outer loop, for row i of a and the rows
\* after it.  j2len[j] is the length of the common run ending at a[i-1], b[j]
\* (0 where the dict has no key); best is (besti, bestj, bestsize).  Within a
\* row j ascends and best is replaced only when k > bestsize, so the row's
\* first longest run is the one that can replace it.
RECURSIVE longest_match_rows(_, _, _, _, _, _)
longest_match_rows(a, b, i, rng, j2len, best) ==
    IF i >= rng.ahi THEN best
    ELSE LET newj2len == [j \in (rng.blo - 1)..(rng.bhi - 1) |->
                            IF j >= rng.blo /\ At(b, j) = At(a, i)
                            THEN j2len[j - 1] + 1 ELSE 0]
             rowmax   == SetMax({newj2len[j] : j \in (rng.blo - 1)..(rng.bhi - 1)})
             jfirst   == SetMin({j \in (rng.blo - 1)..(rng.bhi - 1) : newj2len[j] = rowmax})
             newbest  == IF rowmax > best.size
                         THEN [i |-> i - rowmax + 1, j |-> jfirst - rowmax + 1, size |-> rowmax]
                         ELSE best
             shifted  == [j \in (rng.blo - 2)..(rng.bhi - 1) |->
                            IF j >= rng.blo THEN newj2len[j] ELSE 0]
         IN  longest_match_rows(a, b, i + 1, rng, shifted, newbest)

\* SequenceMatcher.find_longest_match(alo, ahi, blo, bhi) without junk (isjunk
\* is None, and autojunk only acts on texts of 200 characters or more): the
\* longest block a[i:i+k] == b[j:j+k] inside the ranges, earliest in a, then
\* earliest in b; (alo, blo, 0) when there is none.
find_longest_match(a, b, alo, ahi, blo, bhi) ==
    longest_match_rows(a, b, alo, [ahi |-> ahi, blo |-> blo, bhi |-> bhi],
                       [j \in (blo - 2)..(bhi - 1) |-> 0],
                       [i |-> alo, j |-> blo, size |-> 0])

\* The recursion of get_matching_blocks: the longest match, then the pieces to
\* its left and to its right; the result is in increasing order, as after sort().
RECURSIVE matching_blocks_in(_, _, _, _, _, _)
matching_blocks_in(a, b, alo, ahi, blo, bhi) ==
    LET m == find_longest_match(a, b, alo, ahi, blo, bhi)
    IN  IF m.size = 0 THEN <<>>
        ELSE (IF alo < m.i /\ blo < m.j
              THEN matching_blocks_in(a, b, alo, m.i, blo, m.j) ELSE <<>>)
             \o <<m>>
             \o (IF m.i + m.size < ahi /\ m.j + m.size < bhi
                 THEN matching_blocks_in(a, b, m.i + m.size, ahi, m.j + m.size, bhi)
                 ELSE <<>>)

\* get_matching_blocks' second loop: adjacent blocks are collapsed into cur.
RECURSIVE collapse_adjacent(_, _)
collapse_adjacent(blocks, cur) ==
    IF blocks = <<>>
    THEN IF cur.size > 0 THEN <<cur>> ELSE <<>>
    ELSE LET nxt == Head(blocks)
         IN  IF cur.i + cur.size = nxt.i /\ cur.j + cur.size = nxt.j
             THEN collapse_adjacent(Tail(blocks), [cur EXCEPT !.size = cur.size + nxt.size])
             ELSE (IF cur.size > 0 THEN <<cur>> ELSE <<>>)
                  \o collapse_adjacent(Tail(blocks), nxt)

\* SequenceMatcher.get_matching_blocks(), with the closing (len(a), len(b), 0).
get_matching_blocks(a, b) ==
    Append(collapse_adjacent(matching_blocks_in(a, b, 0, Len(a), 0, Len(b)),
                             [i |-> 0, j |-> 0, size |-> 0]),
           [i |-> Len(a), j |-> Len(b), size |-> 0])

RECURSIVE opcodes_from_split_replace(_, _, _)
opcodes_from_split_replace(blocks, i, j) ==
    IF blocks = <<>> THEN <<>>
    ELSE LET m == Head(blocks)
         IN  (IF i < m.i
              THEN <<[tag |-> "delete", i1 |-> i, i2 |-> m.i, j1 |-> j, j2 |-> j]>> ELSE <<>>)
             \o (IF j < m.j
                 THEN <<[tag |-> "insert", i1 |-> m.i, i2 |-> m.i, j1 |-> j, j2 |-> m.j]>>
                 ELSE <<>>)
             \o (IF m.size > 0
                 THEN <<[tag |-> "equal", i1 |-> m.i, i2 |-> m.i + m.size,
                         j1 |-> m.j, j2 |-> m.j + m.size]>>
                 ELSE <<>>)
             \o opcodes_from_split_replace(Tail(blocks), m.i + m.size, m.j + m.size)

\* get_opcodes' loop over the matching blocks from the cursor (i, j).
RECURSIVE opcodes_from(_, _, _)
opcodes_from(blocks, i, j) ==
    IF blocks = <<>> THEN <<>>
    ELSE LET m   == Head(blocks)
             tag == IF i < m.i /\ j < m.j THEN "replace"
                    ELSE IF i < m.i THEN "delete"
                    ELSE IF j < m.j THEN "insert"
                    ELSE ""
         IN  (IF tag # ""
              THEN <<[tag |-> tag, i1 |-> i, i2 |-> m.i, j1 |-> j, j2 |-> m.j]>> ELSE <<>>)
             \o (IF m.size > 0
                 THEN <<[tag |-> "equal", i1 |-> m.i, i2 |-> m.i + m.size,
                         j1 |-> m.j, j2 |-> m.j + m.size]>>
                 ELSE <<>>)
             \o opcodes_from(Tail(blocks), m.i + m.size, m.j + m.size)

\* SequenceMatcher(None, a, b).get_opcodes()
get_opcodes(a, b) == opcodes_from(get_matching_blocks(a, b), 0, 0)

\* The dict {'reference': ref_text, provider_name: comp_text}; the later key wins.
ProvidersData(provider_name, ref_text, comp_text) ==
    (provider_name :> comp_text) @@ ("reference" :> ref_text)

DiffSegment(text, segment_type, start_position, end_position, providers_data) ==
    [text |-> text, segment_type |-> segment_type, start_position |-> start_position,
     end_position |-> end_position, providers_data |-> providers_data]

SegmentOf_replace_as_match(op, reference, comparison, provider_name, position) ==
    LET ref_text  == Slice(reference, op.i1, op.i2)
        comp_text == Slice(comparison, op.j1, op.j2)
    IN  IF op.tag \in {"equal", "replace"}
        THEN DiffSegment(ref_text, "match", position, position + Len(ref_text),
                         ProvidersData(provider_name, ref_text, comp_text))
        ELSE IF op.tag = "delete"
        THEN DiffSegment(ref_text, "minor_diff", position, position + Len(ref_text),
                         ProvidersData(provider_name, ref_text, <<>>))
        ELSE DiffSegment(<<>>, "minor_diff", position, position,
                         ProvidersData(provider_name, <<>>, comp_text))

SegmentOf_insert_text(op, reference, comparison, provider_name, position) ==
    LET ref_text  == Slice(reference, op.i1, op.i2)
        comp_text == Slice(comparison, op.j1, op.j2)
    IN  IF op.tag = "equal"
        THEN DiffSegment(ref_text, "match", position, position + Len(ref_text),
                         ProvidersData(provider_name, ref_text, comp_text))
        ELSE IF op.tag = "replace"
        THEN DiffSegment(ref_text, "major_diff", position, position + Len(ref_text),
                         ProvidersData(provider_name, ref_text, comp_text))
        ELSE IF op.tag = "delete"
        THEN DiffSegment(ref_text, "minor_diff", position, position + Len(ref_text),
                         ProvidersData(provider_name, ref_text, <<>>))
        ELSE DiffSegment(comp_text, "minor_diff", position, position,
                         ProvidersData(provider_name, <<>>, comp_text))

SegmentOf_replace_reference_twice(op, reference, comparison, provider_name, position) ==
    LET ref_text  == Slice(reference, op.i1, op.i2)
        comp_text == Slice(comparison, op.j1, op.j2)
    IN  IF op.tag = "equal"
        THEN DiffSegment(ref_text, "match", position, position + Len(ref_text),
                         ProvidersData(provider_name, ref_text, comp_text))
        ELSE IF op.tag = "replace"
        THEN DiffSegment(ref_text, "major_diff", position, position + Len(ref_text),
                         ProvidersData(provider_name, ref_text, ref_text))
        ELSE IF op.tag = "delete"
        THEN DiffSegment(ref_text, "minor_diff", position, position + Len(ref_text),
                         ProvidersData(provider_name, ref_text, <<>>))
        ELSE DiffSegment(<<>>, "minor_diff", position, position,
                         ProvidersData(provider_name, <<>>, comp_text))

\* The segment align_texts appends for one opcode, at the cursor position.
SegmentOf(op, reference, comparison, provider_name, position) ==
    LET ref_text  == Slice(reference, op.i1, op.i2)
        comp_text == Slice(comparison, op.j1, op.j2)
    IN  IF op.tag = "equal"
        THEN DiffSegment(ref_text, "match", position, position + Len(ref_text),
                         ProvidersData(provider_name, ref_text, comp_text))
        ELSE IF op.tag = "replace"
        THEN DiffSegment(ref_text, "major_diff", position, position + Len(ref_text),
                         ProvidersData(provider_name, ref_text, comp_text))
        ELSE IF op.tag = "delete"
        THEN DiffSegment(ref_text, "minor_diff", position, position + Len(ref_text),
                         ProvidersData(provider_name, ref_text, <<>>))
        ELSE DiffSegment(<<>>, "minor_diff", position, position,
                         ProvidersData(provider_name, <<>>, comp_text))

RECURSIVE segments_from_by_candidate(_, _, _, _, _)
segments_from_by_candidate(ops, reference, comparison, provider_name, position) ==
    IF ops = <<>> THEN <<>>
    ELSE LET seg == SegmentOf(Head(ops), reference, comparison, provider_name, position)
         IN  <<seg>> \o segments_from_by_candidate(Tail(ops), reference, comparison,
                          provider_name, position + (Head(ops).j2 - Head(ops).j1))

\* align_texts' loop over the opcodes; position advances by the reference-side
\* length, not at all on an insert.
RECURSIVE segments_from(_, _, _, _, _)
segments_from(ops, reference, comparison, provider_name, position) ==
    IF ops = <<>> THEN <<>>
    ELSE LET seg == SegmentOf(Head(ops), reference, comparison, provider_name, position)
         IN  <<seg>> \o segments_from(Tail(ops), reference, comparison, provider_name,
                                      seg.end_position)

\* TextAlignmentService.align_texts
align_texts(reference, comparison, provider_name) ==
    segments_from(get_opcodes(reference, comparison), reference, comparison,
                  provider_name, 0)

\* The line separator of str.split.
NL == "\n"

\* Python's text.split(NL): the pieces between separators, one more than
\* there are separators ("" gives one empty line).
RECURSIVE split_lines(_)
split_lines(text) ==
    IF text = <<>> THEN <<<<>>>>
    ELSE LET rest == split_lines(Tail(text))
         IN  IF Head(text) = NL THEN <<<<>>>> \o rest
             ELSE <<<<Head(text)>> \o Head(rest)>> \o Tail(rest)

\* text_lines[line_idx] if line_idx < len(text_lines) else "" (line_idx from 0).
LineOrEmpty(text, line_idx) ==
    LET text_lines == split_lines(text)
    IN  IF line_idx < Len(text_lines) THEN At(text_lines, line_idx) ELSE <<>>

\* The dict built for one line: 'reference' first, then one key per result in
\* list order, a later result of the same name replacing the earlier one.
MergedProvidersData(ref_line, all_results, line_idx) ==
    [name \in {"reference"} \cup {all_results[i].provider_name : i \in 1..Len(all_results)} |->
        LET idx == {i \in 1..Len(all_results) : all_results[i].provider_name = name}
        IN  IF idx = {} THEN ref_line
            ELSE LineOrEmpty(all_results[SetMax(idx)].text, line_idx)]

MergedSegment_pad_reference(ref_line, all_results, line_idx) ==
    LET padded == [i \in 1..Len(all_results) |->
                     IF line_idx < Len(split_lines(all_results[i].text))
                     THEN all_results[i]
                     ELSE [all_results[i] EXCEPT
                             !.text = [k \in 1..line_idx |-> NL] \o ref_line]]
        providers_data  == MergedProvidersData(ref_line, padded, line_idx)
        unique_versions == Cardinality({providers_data[k] : k \in DOMAIN providers_data})
    IN  DiffSegment(ref_line,
                    IF unique_versions = 1 THEN "match"
                    ELSE IF unique_versions <= 2 THEN "minor_diff"
                    ELSE "major_diff",
                    line_idx, line_idx + 1, providers_data)

\* The body of merge_multiple_alignments' loop for one reference line.
MergedSegment(ref_line, all_results, line_idx) ==
    LET providers_data  == MergedProvidersData(ref_line, all_results, line_idx)
        all_equal       == \A i \in 1..Len(all_results) :
                              LineOrEmpty(all_results[i].text, line_idx) = ref_line
        unique_versions == Cardinality({providers_data[k] : k \in DOMAIN providers_data})
    IN  DiffSegment(ref_line,
                    IF all_equal \/ unique_versions = 1 THEN "match"
                    ELSE IF unique_versions <= 2 THEN "minor_diff"
                    ELSE "major_diff",
                    line_idx, line_idx + 1, providers_data)

\* TextAlignmentService.merge_multiple_alignments
merge_multiple_alignments(reference, all_results) ==
    LET ref_lines == split_lines(reference)
    IN  [k \in 1..Len(ref_lines) |-> MergedSegment(ref_lines[k], all_results, k - 1)]

RECURSIVE SumLen_count_segments(_, _)
SumLen_count_segments(segments, counted) ==
    IF segments = <<>> THEN 0
    ELSE (IF (Head(segments).segment_type = "match") = counted THEN 1 ELSE 0)
         + SumLen_count_segments(Tail(segments), counted)

\* calculate_accuracy's loop: the characters of the match segments (counted)
\* or of the others (not counted), by len(segment.text).
RECURSIVE SumLen(_, _)
SumLen(segments, counted) ==
    IF segments = <<>> THEN 0
    ELSE (IF (Head(segments).segment_type = "match") = counted
          THEN Len(Head(segments).text) ELSE 0)
         + SumLen(Tail(segments), counted)

\* A float that is a quotient of two integers, kept exact: <<n, d>> is n / d.
\* 0.0 is <<0, 1>>; (match_count / total_chars) * 100 is <<match_count * 100, total_chars>>.
Ratio(n, d) == <<n, d>>

RatioEq(x, y) == x[1] * y[2] = y[1] * x[2]

IsMajorDiff(segment) == segment.segment_type = "major_diff"

calculate_accuracy_major_only(segments, total_chars) ==
    LET match_count == SumLen(segments, TRUE)
    IN  [match_count |-> match_count,
         diff_count |-> SumLen(SelectSeq(segments, IsMajorDiff), FALSE),
         accuracy |-> IF total_chars = 0 THEN Ratio(0, 1)
                      ELSE Ratio(match_count * 100, total_chars)]

calculate_accuracy_empty_perfect(segments, total_chars) ==
    LET match_count == SumLen(segments, TRUE)
    IN  [match_count |-> match_count, diff_count |-> SumLen(segments, FALSE),
         accuracy |-> IF total_chars = 0 THEN Ratio(100, 1)
                      ELSE Ratio(match_count * 100, total_chars)]

\* TextAlignmentService.calculate_accuracy
calculate_accuracy(segments, total_chars) ==
    LET match_count == SumLen(segments, TRUE)
    IN  [match_count |-> match_count, diff_count |-> SumLen(segments, FALSE),
         accuracy |-> IF total_chars = 0 THEN Ratio(0, 1)
                      ELSE Ratio(match_count * 100, total_chars)]

ComparisonResult(provider_name, segments, total_characters, acc) ==
    [provider_name |-> provider_name, segments |-> segments,
     total_characters |-> total_characters, match_count |-> acc.match_count,
     diff_count |-> acc.diff_count, accuracy_percent |-> acc.accuracy]

create_comparison_results_against_previous(raw_results) ==
    LET reference == find_consensus_text(raw_results)
    IN  [i \in 1..Len(raw_results) |->
            LET result   == raw_results[i]
                against  == IF i = 1 THEN reference ELSE raw_results[i - 1].text
                segments == align_texts(against, result.text, result.provider_name)
            IN  ComparisonResult(result.provider_name, segments, Len(result.text),
                                 calculate_accuracy(segments, Len(reference)))]

create_comparison_results_own_length(raw_results) ==
    LET reference == find_consensus_text(raw_results)
    IN  [i \in 1..Len(raw_results) |->
            LET result   == raw_results[i]
                segments == align_texts(reference, result.text, result.provider_name)
            IN  ComparisonResult(result.provider_name, segments, Len(result.text),
                                 calculate_accuracy(segments, Len(result.text)))]

\* TextAlignmentService.create_comparison_results: every raw result, failed or
\* not, is aligned against the consensus text.
create_comparison_results(raw_results) ==
    LET reference == find_consensus_text(raw_results)
    IN  [i \in 1..Len(raw_results) |->
            LET result   == raw_results[i]
                segments == align_texts(reference, result.text, result.provider_name)
            IN  ComparisonResult(result.provider_name, segments, Len(result.text),
                                 calculate_accuracy(segments, Len(reference)))]

OCRStatistics(provider_name, total_chars, differences, accuracy, processing_time) ==
    [provider_name |-> provider_name, total_chars |-> total_chars,
     differences |-> differences, accuracy |-> accuracy,
     processing_time |-> processing_time]

\* comparison_map.get(name): the dict comprehension keeps the last result of a name.
ComparisonMapGet(comparison_results, name) ==
    LET idx == {i \in 1..Len(comparison_results) :
                  comparison_results[i].provider_name = name}
    IN  IF idx = {} THEN <<>> ELSE <<comparison_results[SetMax(idx)]>>

generate_statistics_counted_chars(raw_results, comparison_results) ==
    [i \in 1..Len(raw_results) |->
        LET raw  == raw_results[i]
            comp == ComparisonMapGet(comparison_results, raw.provider_name)
        IN  IF comp # <<>>
            THEN OCRStatistics(raw.provider_name, comp[1].match_count + comp[1].diff_count,
                               comp[1].diff_count, comp[1].accuracy_percent,
                               raw.processing_time)
            ELSE OCRStatistics(raw.provider_name, 0, 0, Ratio(0, 1), raw.processing_time)]

\* OCRComparisonService._generate_statistics
generate_statistics(raw_results, comparison_results) ==
    [i \in 1..Len(raw_results) |->
        LET raw  == raw_results[i]
            comp == ComparisonMapGet(comparison_results, raw.provider_name)
        IN  IF comp # <<>>
            THEN OCRStatistics(raw.provider_name, comp[1].total_characters,
                               comp[1].diff_count, comp[1].accuracy_percent,
                               raw.processing_time)
            ELSE OCRStatistics(raw.provider_name, 0, 0, Ratio(0, 1), raw.processing_time)]

\* Steps 2-4 of process_document: the response built from the raw results.
ComparisonResponse(task_id, filename, raw_results) ==
    LET comparison_results == create_comparison_results(raw_results)
    IN  [task_id |-> task_id, filename |-> filename, status |-> "completed",
         raw_results |-> raw_results, comparison |-> comparison_results,
         statistics |-> generate_statistics(raw_results, comparison_results),
         html_visualization |-> None]

\* ------------------------------------------------------------- registry reads
\* get_task_status on the registry reg (self.tasks).
get_task_status(reg, t) ==
    IF reg[t] = <<>>
    THEN [task_id |-> t, status |-> "not_found"]
    ELSE [task_id |-> t, status |-> reg[t][1].status]

\* GET /api/status/{task_id}: the HTTP outcome.
get_status(reg, t) ==
    LET task_info == get_task_status(reg, t)
    IN  IF task_info.status = "not_found"
        THEN [code |-> 404, status |-> "not_found"]
        ELSE [code |-> 200, status |-> task_info.status]

\* GET /api/results/{task_id}: the HTTP outcome (the body is the stored result).
get_results_response(reg, t) ==
    LET task_info == get_task_status(reg, t)
    IN  IF task_info.status = "not_found"
        THEN [code |-> 404, detail |-> "task_not_found", body |-> <<>>]
        ELSE IF task_info.status # "completed"
             THEN [code |-> 400, detail |-> "not_completed", body |-> <<>>]
        ELSE IF reg[t][1].result = <<>>
             THEN [code |-> 500, detail |-> "no_result", body |-> <<>>]
        ELSE [code |-> 200, detail |-> "ok", body |-> reg[t][1].result]

\* GET /api/compare/{task_id}/html: the HTTP outcome.
get_html_visualization_response(reg, t) ==
    LET task_info == get_task_status(reg, t)
    IN  IF task_info.status # "completed"
        THEN [code |-> 400, detail |-> "not_completed", body |-> <<>>]
        ELSE IF reg[t][1].result = <<>>
             THEN [code |-> 404, detail |-> "no_result", body |-> <<>>]
        ELSE [code |-> 200, detail |-> "ok", body |-> reg[t][1].result]

\* ------------------------------------------------------------- workers
\* The coroutine background_process() handed to asyncio.create_task.
Worker(t, filename) ==
    [task |-> t, filename |-> filename, pc |-> "scheduled", units |-> <<>>, exc |-> None]

AllUnitsDoneOrRaised(w) ==
    \/ \A i \in 1..Len(workers[w].units) : workers[w].units[i].st \in {"returned", "raised"}
    \/ \E i \in 1..Len(workers[w].units) : workers[w].units[i].st = "raised"

\* The gather (return_exceptions=True) returns once every unit has ended.
AllUnitsDone(w) ==
    \A i \in 1..Len(workers[w].units) : workers[w].units[i].st \in {"returned", "raised"}

\* Workers between the creation of their record and their last write to it.
ActiveWorkers(t) ==
    {w \in 1..Len(workers) : workers[w].task = t /\ workers[w].pc = "gathering"}

\* ------------------------------------------------------------- actions
\* POST /api/upload: a fresh task id, the file saved as <task_id>_<filename>.
upload_document(f) ==
    /\ issued < MaxTasks
    /\ issued' = issued + 1
    /\ files' = [files EXCEPT ![issued + 1] = f]
    /\ UNCHANGED <<providers, engines, tasks, workers, fn_in, fn_out>>

\* POST /api/process/{task_id}: 404 without a file, else create_task(background_process()).
process_document_route(t) ==
    /\ Len(workers) < MaxProcess
    /\ IF files[t] = NoFile
       THEN UNCHANGED workers
       ELSE workers' = Append(workers, Worker(t, files[t]))
    /\ UNCHANGED <<providers, engines, files, issued, tasks, fn_in, fn_out>>

\* process_document up to its first await: the record is (re)created, the units fan out.
WorkerStart(w) ==
    /\ workers[w].pc = "scheduled"
    /\ tasks' = [tasks EXCEPT ![workers[w].task] = <<NewTask(workers[w].filename)>>]
    /\ workers' = [workers EXCEPT ![w].pc = "gathering",
                                  ![w].units = [i \in 1..Len(providers) |-> PendingUnit]]
    /\ UNCHANGED <<providers, engines, files, issued, fn_in, fn_out>>

\* provider.process() of unit i returns (text, processing_time).
UnitReturn(w, i, text, time) ==
    /\ workers[w].pc = "gathering"
    /\ workers[w].units[i].st = "pending"
    /\ workers' = [workers EXCEPT ![w].units[i] = ReturnedUnit(text, time)]
    /\ engines' = [engines EXCEPT ![providers[i]] = InitializedCheck(@, TRUE)]
    /\ UNCHANGED <<providers, files, issued, tasks, fn_in, fn_out>>

\* provider.process() of unit i raises: in extract_text (init_ok), or already
\* in the initialize() it calls.
UnitRaise(w, i, init_ok) ==
    /\ workers[w].pc = "gathering"
    /\ workers[w].units[i].st = "pending"
    /\ init_ok \/ ~engines[providers[i]].is_initialized
    /\ workers' = [workers EXCEPT ![w].units[i] = RaisedUnit("extraction_error")]
    /\ engines' = [engines EXCEPT ![providers[i]] = InitializedCheck(@, init_ok)]
    /\ UNCHANGED <<providers, files, issued, tasks, fn_in, fn_out>>

PipelineExceptionNoIsolation(units, fault, present) ==
    IF \E i \in 1..Len(units) : units[i].st = "raised" THEN "extraction_error"
    ELSE IF fault # "none" THEN fault
    ELSE IF ~present THEN "KeyError"
    ELSE None

\* What the try block of process_document raises, None if nothing: a fault of
\* the stage named by fault, or KeyError at line 101 when the record is gone.
\* The units' own exceptions were absorbed by _run_single_ocr.
PipelineException(units, fault, present) ==
    IF fault # "none" THEN fault
    ELSE IF ~present THEN "KeyError"
    ELSE None

CompletedTaskStatusOnly(rec, response) ==
    [rec EXCEPT !.status = "completed"]

\* The record after lines 109-110 (status and result set on the existing dict).
CompletedTask(rec, response) ==
    [rec EXCEPT !.status = "completed", !.result = <<response>>]

FailedTaskKeepStatus(rec, msg) ==
    [rec EXCEPT !.error = msg]

\* The record after lines 119-120 (status and error set on the existing dict).
FailedTask(rec, msg) ==
    [rec EXCEPT !.status = "failed", !.error = msg]

\* process_document from the gather's return to its end, with background_process's
\* except around it.  The handler's own write raises KeyError when the record is
\* gone (line 119), so a deleted record is never written.
WorkerFinish(w, fault) ==
    LET t   == workers[w].task
        raw == run_all_ocr(providers, workers[w].units)
        err == PipelineException(workers[w].units, fault, tasks[t] # <<>>)
    IN  /\ workers[w].pc = "gathering"
        /\ AllUnitsDone(w)
        /\ tasks' = IF tasks[t] = <<>> THEN tasks
                    ELSE IF err = None
                         THEN [tasks EXCEPT ![t] =
                                 <<CompletedTask(tasks[t][1],
                                     ComparisonResponse(t, workers[w].filename, raw))>>]
                         ELSE [tasks EXCEPT ![t] = <<FailedTask(tasks[t][1], err)>>]
        /\ workers' = [workers EXCEPT ![w].pc = "done", ![w].units = <<>>,
                                      ![w].exc = IF tasks[t] = <<>> THEN "KeyError" ELSE err]
        /\ UNCHANGED <<providers, engines, files, issued, fn_in, fn_out>>

delete_task_clear_registry(t) ==
    /\ files' = [files EXCEPT ![t] = NoFile]
    /\ tasks' = [u \in DOMAIN tasks |-> <<>>]
    /\ UNCHANGED <<providers, engines, issued, workers, fn_in, fn_out>>

\* DELETE /api/task/{task_id}: unlink the files, drop the record.
delete_task(t) ==
    /\ files' = [files EXCEPT ![t] = NoFile]
    /\ tasks' = [tasks EXCEPT ![t] = <<>>]
    /\ UNCHANGED <<providers, engines, issued, workers, fn_in, fn_out>>

\* GET /api/status/{task_id} reads the registry.
get_status_route(t) ==
    /\ get_status(tasks, t).code \in {200, 404}
    /\ UNCHANGED vars

\* GET /api/results/{task_id}: on success the HTML is generated once and cached
\* on the stored response; generate_html raising leaves it None.
get_results(t, include_html, html_ok) ==
    LET r == get_results_response(tasks, t)
    IN  /\ tasks' = IF r.code = 200 /\ include_html /\ html_ok
                       /\ r.body[1].html_visualization = None
                    THEN [tasks EXCEPT ![t][1].result[1].html_visualization = "html"]
                    ELSE tasks
        /\ UNCHANGED <<providers, engines, files, issued, workers, fn_in, fn_out>>

\* GET /api/compare/{task_id}/html reads the registry.
get_html_visualization(t) ==
    /\ get_html_visualization_response(tasks, t).code \in {200, 400, 404}
    /\ UNCHANGED vars

\* ------------------------------------------------------------- specification
\* The engines after lifespan() built and initialized the registered ones.
EnginesAtStartup ==
    [name \in EngineNames |->
        IF \E i \in 1..Len(providers) : providers[i] = name
        THEN EngineAfterStartup ELSE EngineNotBuilt]

InitRegistry ==
    /\ engines = EnginesAtStartup
    /\ files = [t \in TaskIds |-> NoFile]
    /\ issued = 0
    /\ tasks = [t \in TaskIds |-> <<>>]
    /\ workers = <<>>

Init ==
    /\ providers = RegistryProviders
    /\ InitRegistry
    /\ fn_in = <<>>
    /\ fn_out = <<>>

Next ==
    \/ \E f \in FileNames : upload_document(f)
    \/ \E t \in TaskIds : process_document_route(t)
    \/ \E w \in 1..Len(workers) : WorkerStart(w)
    \/ \E w \in 1..Len(workers), i \in 1..Len(providers) :
         \E text \in OcrOutputs(providers[i]), time \in Durations :
           UnitReturn(w, i, text, time)
    \/ \E w \in 1..Len(workers), i \in 1..Len(providers)  : UnitRaise(w, i, TRUE)
    \/ \E w \in 1..Len(workers), fault \in {"none"} \cup PipelineStages :
         WorkerFinish(w, fault)
    \/ \E t \in TaskIds : delete_task(t)
    \/ \E t \in TaskIds : get_status_route(t)
    \/ \E t \in TaskIds, include_html \in BOOLEAN, html_ok \in BOOLEAN :
         get_results(t, include_html, html_ok)
    \/ \E t \in TaskIds : get_html_visualization(t)

Spec == Init /\ [][Next]_vars

\* A step of worker w: its start, the end of one of its units, or its finish.
WorkerProgress(w) ==
    /\ w <= Len(workers)
    /\ \/ WorkerStart(w)
       \/ \E i \in 1..Len(providers) :
            \/ \E text \in OcrOutputs(providers[i]), time \in Durations :
                 UnitReturn(w, i, text, time)
            \/ UnitRaise(w, i, TRUE)
       \/ \E fault \in {"none"} \cup PipelineStages : WorkerFinish(w, fault)

\* The steps that write a task's status: uploads, process requests, the workers
\* and deletions.
NextLifecycle ==
    \/ \E f \in FileNames : upload_document(f)
    \/ \E t \in TaskIds : process_document_route(t)
    \/ \E w \in 1..Len(workers) : WorkerProgress(w)
    \/ \E t \in TaskIds : delete_task(t)

\* The lifecycle is followed with one engine registered.
InitLifecycle ==
    /\ providers = SubSeq(AllProviders, 1, 1)
    /\ InitRegistry
    /\ fn_in = <<>>
    /\ fn_out = <<>>

\* The event loop runs every ready coroutine, and every engine call returns or raises.
FairSpec ==
    /\ InitLifecycle
    /\ [][NextLifecycle]_vars
    /\ \A w \in 1..MaxProcess : WF_vars(WorkerProgress(w))

\* One document, one process request, any registration, no pipeline fault: the
\* fan-out and fan-in of _run_all_ocr on their own.
InitRunAll ==
    /\ providers \in Registrations
    /\ InitRegistry
    /\ fn_in = <<>>
    /\ fn_out = <<>>

NextRunAll ==
    \/ \E f \in FileNames : upload_document(f)
    \/ \E t \in TaskIds : workers = <<>> /\ process_document_route(t)
    \/ \E w \in 1..Len(workers) : WorkerStart(w)
    \/ \E w \in 1..Len(workers), i \in 1..Len(providers) :
         \E text \in RunAllTexts, time \in Durations : UnitReturn(w, i, text, time)
    \/ \E w \in 1..Len(workers), i \in 1..Len(providers)  : UnitRaise(w, i, TRUE)
    \/ \E w \in 1..Len(workers) : WorkerFinish(w, "none")

SpecRunAll == InitRunAll /\ [][NextRunAll]_vars

\* Raw result lists handed to the consensus selector: every list of up to
\* MaxResults texts, short ones over {a, b} plus the texts of the documented cases.
ConsensusTexts ==
    SeqsUpTo({"a", "b"}, MaxTextLen)
      \cup {<<"a", "b", "c">>, <<"a", "b", "c", "d", "e", "f">>, <<"x", "y", "z">>}

ResultsOf(texts) ==
    [i \in 1..Len(texts) |-> RawOCRResult(AllProviders[i], texts[i], 1, None)]

TextsOf(results) == [i \in 1..Len(results) |-> results[i].text]

InitConsensus ==
    /\ providers = RegistryProviders
    /\ InitRegistry
    /\ fn_in \in {ResultsOf(ts) : ts \in SeqsUpTo(ConsensusTexts, MaxResults)}
    /\ fn_out = <<>>

ApplyFindConsensus ==
    /\ fn_out = <<>>
    /\ fn_out' = <<find_consensus_text(fn_in)>>
    /\ UNCHANGED <<providers, engines, files, issued, tasks, workers, fn_in>>

NextConsensus == ApplyFindConsensus

SpecConsensus == InitConsensus /\ [][NextConsensus]_vars

\* Startup followed by tasks on one registered engine, whose initialize() may
\* also raise when process() calls it.
NextInitialize ==
    \/ \E f \in FileNames : upload_document(f)
    \/ \E t \in TaskIds : process_document_route(t)
    \/ \E w \in 1..Len(workers) : WorkerStart(w)
    \/ \E w \in 1..Len(workers), i \in 1..Len(providers) :
         \E text \in OcrOutputs(providers[i]), time \in Durations :
           UnitReturn(w, i, text, time)
    \/ \E w \in 1..Len(workers), i \in 1..Len(providers), init_ok \in BOOLEAN :
         UnitRaise(w, i, init_ok)
    \/ \E w \in 1..Len(workers) : WorkerFinish(w, "none")
    \/ \E t \in TaskIds : delete_task(t)

SpecInitialize == InitLifecycle /\ [][NextInitialize]_vars

\* Engines whose call awaits (OLMoCR posts to its API server through
\* httpx.AsyncClient); the calls of the others (pipeline.predict,
\* image_to_string, readtext, llm.generate) run inside the coroutine without
\* an await and keep the event loop until they end.
Suspends(name) == name = "OLMoCR"

\* The event loop can run a handler or another coroutine: no call that never
\* ends is running on it.
LoopFree ==
    \A w \in 1..Len(workers) : \A i \in 1..Len(workers[w].units) :
        workers[w].units[i].st = "stalled" => Suspends(providers[i])

\* provider.process() of unit i enters the engine call, which never ends.
UnitStall(w, i) ==
    /\ workers[w].pc = "gathering"
    /\ workers[w].units[i].st = "pending"
    /\ \A v \in 1..Len(workers) : \A j \in 1..Len(workers[v].units) :
          workers[v].units[j].st # "stalled"
    /\ workers' = [workers EXCEPT ![w].units[i] = StalledUnit]
    /\ engines' = [engines EXCEPT ![providers[i]] = InitializedCheck(@, TRUE)]
    /\ UNCHANGED <<providers, files, issued, tasks, fn_in, fn_out>>

\* Two documents, A and B, one process request each, a blocking and an
\* awaiting engine registered.
StallTaskIds == {"A", "B"}

StallProviders == <<AllProviders[2], AllProviders[5]>>

\* Both documents are blank pages: an engine that returns, returns "".
StallOutputs == {<<>>}

InitStall ==
    /\ providers = StallProviders
    /\ engines = EnginesAtStartup
    /\ files = [t \in StallTaskIds |-> CHOOSE f \in FileNames : TRUE]
    /\ issued = Cardinality(StallTaskIds)
    /\ tasks = [t \in StallTaskIds |-> <<>>]
    /\ workers = <<>>
    /\ fn_in = <<>>
    /\ fn_out = <<>>

\* A step of worker w that the event loop can run.
StallProgress(w) ==
    /\ w <= Len(workers)
    /\ LoopFree
    /\ \/ WorkerStart(w)
       \/ \E i \in 1..Len(providers) :
            \/ \E text \in StallOutputs, time \in Durations :
                 UnitReturn(w, i, text, time)
            \/ UnitRaise(w, i, TRUE)
       \/ WorkerFinish(w, "none")

NextStall ==
    \/ \E t \in StallTaskIds :
         /\ LoopFree
         /\ \A w \in 1..Len(workers) : workers[w].task # t
         /\ process_document_route(t)
    \/ \E w \in 1..Len(workers) : StallProgress(w)
    \/ \E w \in 1..Len(workers), i \in 1..Len(providers) : LoopFree /\ UnitStall(w, i)

\* The event loop runs every ready coroutine when it is free, and every engine
\* call that did not stall returns or raises.
FairSpecStall ==
    /\ InitStall
    /\ [][NextStall]_vars
    /\ \A w \in 1..MaxProcess : WF_vars(StallProgress(w))

\* Reference and candidate texts handed to the aligner: every text over
\* {a, b, c} up to MaxAlignLen, plus the documented pair.
AlignTexts ==
    SeqsUpTo({"a", "b", "c"}, MaxAlignLen) \cup {<<"c", "a", "t">>, <<"c", "o", "t">>}

InitAlign ==
    /\ providers = RegistryProviders
    /\ InitRegistry
    /\ fn_in \in {<<reference, comparison>> : reference \in AlignTexts, comparison \in AlignTexts}
    /\ fn_out = <<>>

\* align_texts followed by calculate_accuracy over the reference length, as in
\* the loop body of create_comparison_results.
ApplyAlign ==
    /\ fn_out = <<>>
    /\ fn_out' = LET segments == align_texts(fn_in[1], fn_in[2], AllProviders[2])
                 IN  <<[segments |-> segments,
                        accuracy |-> calculate_accuracy(segments, Len(fn_in[1]))]>>
    /\ UNCHANGED <<providers, engines, files, issued, tasks, workers, fn_in>>

NextAlign == ApplyAlign

SpecAlign == InitAlign /\ [][NextAlign]_vars

\* What one engine can contribute to a run: a failure, or a text up to MaxTextLen.
CompareResultsOf(name) ==
    {run_single_ocr(name, RaisedUnit("extraction_error"))}
      \cup {run_single_ocr(name, ReturnedUnit(text, time)) :
               text \in SeqsUpTo({"a", "b"}, MaxTextLen), time \in Durations}

\* The raw result lists of runs with the first n engines registered, n <= MaxResults.
RECURSIVE CompareInputs(_)
CompareInputs(n) ==
    IF n = 0 THEN {<<>>}
    ELSE LET shorter == CompareInputs(n - 1)
         IN  shorter \cup {Append(rs, r) : rs \in {q \in shorter : Len(q) = n - 1},
                                            r \in CompareResultsOf(AllProviders[n])}

InitCompare ==
    /\ providers = RegistryProviders
    /\ InitRegistry
    /\ fn_in \in CompareInputs(MaxResults) \ {<<>>}
    /\ fn_out = <<>>

\* Steps 2 and 3 of process_document on the raw results of a run.
ApplyCompare ==
    /\ fn_out = <<>>
    /\ fn_out' = LET comparison_results == create_comparison_results(fn_in)
                 IN  <<[comparison |-> comparison_results,
                        statistics |-> generate_statistics(fn_in, comparison_results)]>>
    /\ UNCHANGED <<providers, engines, files, issued, tasks, workers, fn_in>>

NextCompare == ApplyCompare

SpecCompare == InitCompare /\ [][NextCompare]_vars

\* Two runs of the same three engines set side by side: the second engine
\* gives the same raw result in both, the first and the third engine give any
\* results.  Texts are those over {a, b} up to MaxTwoRunLen and two longer ones.
TwoRunTexts ==
    SeqsUpTo({"a", "b"}, MaxTwoRunLen) \cup {<<"a", "b">>, <<"a", "b", "a">>}

TwoRunResultsOf(name) ==
    {run_single_ocr(name, RaisedUnit("extraction_error"))}
      \cup {run_single_ocr(name, ReturnedUnit(text, time)) :
               text \in TwoRunTexts, time \in Durations}

InitTwoRuns ==
    /\ providers = SubSeq(AllProviders, 1, 3)
    /\ InitRegistry
    /\ fn_in \in {<<<<r1, own, r3>>, <<s1, own, s3>>>> :
                     r1 \in TwoRunResultsOf(AllProviders[1]),
                     s1 \in TwoRunResultsOf(AllProviders[1]),
                     own \in TwoRunResultsOf(AllProviders[2]),
                     r3 \in TwoRunResultsOf(AllProviders[3]),
                     s3 \in TwoRunResultsOf(AllProviders[3])}
    /\ fn_out = <<>>

\* Step 2 of process_document on the raw results of each of the two runs.
ApplyTwoRuns ==
    /\ fn_out = <<>>
    /\ fn_out' = <<[first  |-> create_comparison_results(fn_in[1]),
                    second |-> create_comparison_results(fn_in[2])]>>
    /\ UNCHANGED <<providers, engines, files, issued, tasks, workers, fn_in>>

NextTwoRuns == ApplyTwoRuns

SpecTwoRuns == InitTwoRuns /\ [][NextTwoRuns]_vars

\* Engine texts handed to the line-level merge: every text over a letter and
\* the line separator up to MaxMergeLen, and two with another letter.
MergeTexts ==
    SeqsUpTo({"a", NL}, MaxMergeLen) \cup {<<"b">>, <<"a", NL, "b">>}

InitMerge ==
    /\ providers = RegistryProviders
    /\ InitRegistry
    /\ fn_in \in {ResultsOf(ts) : ts \in SeqsUpTo(MergeTexts, MaxResults)}
    /\ fn_out = <<>>

\* The merge of a run's raw results over their consensus text.
ApplyMerge ==
    /\ fn_out = <<>>
    /\ fn_out' = <<merge_multiple_alignments(find_consensus_text(fn_in), fn_in)>>
    /\ UNCHANGED <<providers, engines, files, issued, tasks, workers, fn_in>>

NextMerge == ApplyMerge

SpecMerge == InitMerge /\ [][NextMerge]_vars

\* Two uploaded documents, A and B, with different names and different
\* contents, processed, failed and deleted in any interleaving.
IsolationTaskIds == {"A", "B"}

UploadedName(t) == IF t = "A" THEN "a.pdf" ELSE "b.pdf"

\* What an engine that returns reads off the document saved under a name.
DocumentTexts(filename) == IF filename = "a.pdf" THEN {<<"a">>} ELSE {<<"b", "a">>}

InitIsolation ==
    /\ providers = RegistryProviders
    /\ engines = EnginesAtStartup
    /\ files = [t \in IsolationTaskIds |-> UploadedName(t)]
    /\ issued = Cardinality(IsolationTaskIds)
    /\ tasks = [t \in IsolationTaskIds |-> <<>>]
    /\ workers = <<>>
    /\ fn_in = <<>>
    /\ fn_out = <<>>

NextIsolation ==
    \/ \E t \in IsolationTaskIds : process_document_route(t)
    \/ \E w \in 1..Len(workers) : WorkerStart(w)
    \/ \E w \in 1..Len(workers), i \in 1..Len(providers) :
         \E text \in DocumentTexts(workers[w].filename), time \in Durations :
           UnitReturn(w, i, text, time)
    \/ \E w \in 1..Len(workers), i \in 1..Len(providers) : UnitRaise(w, i, TRUE)
    \/ \E w \in 1..Len(workers), fault \in {"none"} \cup PipelineStages :
         WorkerFinish(w, fault)
    \/ \E t \in IsolationTaskIds : delete_task(t)

SpecIsolation == InitIsolation /\ [][NextIsolation]_vars

\* ------------------------------------------------------------- properties
Status(t) == get_task_status(tasks, t).status

Finishes(w) == workers[w].pc = "gathering" /\ workers'[w].pc = "done"

StoredRaw(t) == tasks[t][1].result[1].raw_results

\* C1: whatever engines are registered and in whatever order their calls end,
\* the raw results of a run are one per registered engine, the i-th carrying
\* the name of the i-th registered engine.
C1_RegistrationOrder ==
    \A t \in TaskIds :
        Status(t) = "completed" =>
            /\ Len(StoredRaw(t)) = Len(providers)
            /\ \A i \in 1..Len(providers) : StoredRaw(t)[i].provider_name = providers[i]

W_C1 ==
    \E t \in TaskIds :
        /\ Status(t) = "completed"
        /\ Len(StoredRaw(t)) > 2
        /\ \A i \in 1..Len(StoredRaw(t)) : StoredRaw(t)[i].error = None
        /\ StoredRaw(t)[1].text # StoredRaw(t)[2].text

\* C2: when a run ends, every engine has a result; an engine that raised has
\* error set, text "" and processing_time 0; an engine that returned has
\* error None and exactly the text it returned.
C2_FailureIsolation ==
    [][\A w \in 1..Len(workers) :
         Finishes(w) =>
            LET t     == workers[w].task
                units == workers[w].units
            IN  /\ tasks'[t] # <<>>
                /\ tasks'[t][1].status = "completed"
                /\ LET raw == tasks'[t][1].result[1].raw_results
                   IN  /\ Len(raw) = Len(providers)
                       /\ \A i \in 1..Len(providers) :
                            /\ units[i].st = "raised" =>
                                 /\ raw[i].error # None
                                 /\ raw[i].text = <<>>
                                 /\ raw[i].processing_time = 0
                            /\ units[i].st = "returned" =>
                                 /\ raw[i].error = None
                                 /\ raw[i].text = units[i].text]_vars

W_C2 ==
    \E t \in TaskIds :
        /\ Status(t) = "completed"
        /\ Len(StoredRaw(t)) > 2
        /\ StoredRaw(t)[1].error = None /\ StoredRaw(t)[1].text # <<>>
        /\ StoredRaw(t)[2].error # None
        /\ StoredRaw(t)[3].error = None /\ StoredRaw(t)[3].text # <<>>

\* C3: an engine's exception never fails the task: a record is failed only if a
\* worker of that task hit a fault of a pipeline stage, and a worker that ends
\* without such a fault on an existing record leaves it completed with a result.
C3_EngineFailureNeverFailsTask ==
    /\ [](\A t \in TaskIds :
            Status(t) = "failed" =>
                \E w \in 1..Len(workers) :
                    workers[w].task = t /\ workers[w].exc \in PipelineStages)
    /\ [][\A w \in 1..Len(workers) :
            (Finishes(w) /\ workers'[w].exc \notin PipelineStages
                         /\ tasks[workers[w].task] # <<>>) =>
                /\ tasks'[workers[w].task] # <<>>
                /\ tasks'[workers[w].task][1].status = "completed"
                /\ tasks'[workers[w].task][1].result # <<>>]_vars

W_C3 ==
    \E t \in TaskIds :
        /\ Status(t) = "completed"
        /\ tasks[t][1].result # <<>>
        /\ \A i \in 1..Len(StoredRaw(t)) : StoredRaw(t)[i].error # None

\* C4: a worker that ends on a fault of a pipeline stage leaves its record
\* failed, with the message attached and no result.
C4_PipelineFailureRecord ==
    [][\A w \in 1..Len(workers) :
         (Finishes(w) /\ workers'[w].exc \in PipelineStages
                      /\ tasks[workers[w].task] # <<>>) =>
             /\ tasks'[workers[w].task] # <<>>
             /\ tasks'[workers[w].task][1].status = "failed"
             /\ tasks'[workers[w].task][1].error # None
             /\ tasks'[workers[w].task][1].result = <<>>]_vars

\* C5: once a record is completed or failed, a step either deletes it or leaves
\* its status as it is.
C5_TerminalFinal ==
    [][\A t \in TaskIds :
         Status(t) \in {"completed", "failed"} =>
             \/ tasks'[t] = <<>>
             \/ tasks'[t][1].status = tasks[t][1].status]_vars

\* C6 as stated: every task whose processing started eventually has status
\* completed or failed.
C6_EventuallyTerminal ==
    \A t \in TaskIds :
        (Status(t) = "processing") ~> (Status(t) \in {"completed", "failed"})

\* C6 amended: a record in processing always has a running worker, and every
\* task whose processing started eventually has status completed or failed or
\* has no record any more (it was deleted).
C6_NeverLeftProcessing ==
    /\ [](\A t \in TaskIds : Status(t) = "processing" => ActiveWorkers(t) # {})
    /\ \A t \in TaskIds :
         (Status(t) = "processing") ~>
             (Status(t) \in {"completed", "failed", "not_found"})

W_C6 ==
    \E w \in 1..Len(workers) :
        /\ workers[w].pc = "done"
        /\ workers[w].exc = "KeyError"
        /\ Status(workers[w].task) = "not_found"

\* C7: a task that was uploaded and then deleted reports not_found.
C7_DeletedStaysNotFound ==
    \A t \in TaskIds :
        (t <= issued /\ files[t] = NoFile) => get_status(tasks, t).status = "not_found"

\* C8: for a task that exists and is not completed, both result routes answer
\* differently from how they answer an unknown task id, and a body is returned
\* only for a completed task.
C8_RejectedDistinctly ==
    \A t \in TaskIds :
        LET unknown == [tasks EXCEPT ![t] = <<>>]
        IN  /\ Status(t) \in {"processing", "failed"} =>
                /\ get_results_response(tasks, t) # get_results_response(unknown, t)
                /\ get_html_visualization_response(tasks, t)
                     # get_html_visualization_response(unknown, t)
            /\ get_results_response(tasks, t).body # <<>> => Status(t) = "completed"
            /\ get_html_visualization_response(tasks, t).body # <<>> =>
                 Status(t) = "completed"

\* C9: at most one worker is active for a task id.
C9_SingleWriter ==
    \A t \in TaskIds : Cardinality(ActiveWorkers(t)) <= 1

AlignReference == fn_in[1]

AlignCandidate == fn_in[2]

AlignSegments == fn_out[1].segments

AlignAccuracy == fn_out[1].accuracy

\* An insertion-only segment: nothing on the reference side.
IsInsertSegment(seg) == seg.providers_data["reference"] = <<>>

\* C11: when an engine's segment list holds no insertion-only segment,
\* match_count + diff_count is the length of the reference.
C11_LengthInvariant ==
    fn_out # <<>> =>
        ((\A k \in 1..Len(AlignSegments) : ~IsInsertSegment(AlignSegments[k])) =>
            AlignAccuracy.match_count + AlignAccuracy.diff_count = Len(AlignReference))

W_C11 ==
    /\ fn_out # <<>>
    /\ \A k \in 1..Len(AlignSegments) : ~IsInsertSegment(AlignSegments[k])
    /\ \E k \in 1..Len(AlignSegments) : AlignSegments[k].segment_type = "match"
    /\ \E k \in 1..Len(AlignSegments) : AlignSegments[k].segment_type = "minor_diff"
    /\ AlignAccuracy.diff_count > 0

\* C12 as stated: the accuracy is 100.0 exactly when the candidate equals the
\* reference.
C12_ExactMatch ==
    fn_out # <<>> =>
        (RatioEq(AlignAccuracy.accuracy, Ratio(100, 1)) <=> AlignCandidate = AlignReference)

\* C12 amended: for a candidate no longer than the reference, the accuracy is
\* 100.0 exactly when the candidate equals the reference and the reference is
\* not empty (an empty reference gives 0.0).
C12_ExactMatchNonEmpty ==
    (fn_out # <<>> /\ Len(AlignCandidate) <= Len(AlignReference)) =>
        (RatioEq(AlignAccuracy.accuracy, Ratio(100, 1)) <=>
            (AlignCandidate = AlignReference /\ AlignReference # <<>>))

W_C12 ==
    /\ fn_out # <<>>
    /\ AlignCandidate = AlignReference
    /\ Len(AlignReference) > 2
    /\ RatioEq(AlignAccuracy.accuracy, Ratio(100, 1))

C19_PositionsPartitionReference ==
    fn_out # <<>> =>
        LET segs == AlignSegments
        IN  /\ segs = <<>> => AlignReference = <<>>
            /\ segs # <<>> =>
                 /\ segs[1].start_position = 0
                 /\ segs[Len(segs)].end_position = Len(AlignReference)
            /\ \A k \in 1..Len(segs) :
                 /\ segs[k].start_position <= segs[k].end_position
                 /\ segs[k].end_position - segs[k].start_position
                      = Len(segs[k].providers_data["reference"])
                 /\ segs[k].providers_data["reference"]
                      = Slice(AlignReference, segs[k].start_position, segs[k].end_position)
                 /\ k > 1 => segs[k].start_position = segs[k - 1].end_position

W_C19 ==
    /\ fn_out # <<>>
    /\ Len(AlignSegments) > 2
    /\ \E k \in 1..Len(AlignSegments) : IsInsertSegment(AlignSegments[k])
    /\ \E k \in 1..Len(AlignSegments) : AlignSegments[k].start_position > 0
    /\ AlignSegments[Len(AlignSegments)].end_position > 1

C13_FailedEngineZeroStatistics ==
    fn_out # <<>> =>
        \A i \in 1..Len(fn_in) :
            fn_in[i].error # None =>
                /\ fn_out[1].statistics[i].provider_name = fn_in[i].provider_name
                /\ fn_out[1].statistics[i].total_chars = 0
                /\ fn_out[1].statistics[i].differences = 0
                /\ RatioEq(fn_out[1].statistics[i].accuracy, Ratio(0, 1))
                /\ fn_out[1].statistics[i].processing_time = fn_in[i].processing_time

\* C14: when every engine's text is empty, the reference is "", every engine's
\* segment list is empty and every accuracy_percent is 0.0.
C14_EmptyInput ==
    (fn_out # <<>> /\ \A i \in 1..Len(fn_in) : fn_in[i].text = <<>>) =>
        /\ find_consensus_text(fn_in) = <<>>
        /\ Len(fn_out[1].comparison) = Len(fn_in)
        /\ \A i \in 1..Len(fn_in) :
             /\ fn_out[1].comparison[i].segments = <<>>
             /\ fn_out[1].comparison[i].accuracy_percent[1] = 0
             /\ fn_out[1].comparison[i].accuracy_percent[2] # 0

W_C14 ==
    /\ fn_out # <<>>
    /\ Len(fn_in) > 1
    /\ \A i \in 1..Len(fn_in) : fn_in[i].text = <<>> /\ fn_in[i].error = None
    /\ Len(fn_out[1].comparison) = Len(fn_in)

\* C17: no engine's initialize() is invoked more than once, over startup and
\* any number of tasks.
C17_InitializeAtMostOnce ==
    \A name \in EngineNames : engines[name].init_calls <= 1

\* C18: a worker leaves the gather for consensus selection and alignment only
\* when every unit has returned or raised, and a step in which one unit ends
\* leaves every other unit of the fan-out as it was.
C18_FanInBarrier ==
    [][\A w \in 1..Len(workers) :
         /\ Finishes(w) =>
              /\ Len(workers[w].units) = Len(providers)
              /\ \A i \in 1..Len(providers) :
                   workers[w].units[i].st \in {"returned", "raised"}
         /\ (workers[w].pc = "gathering" /\ workers'[w].pc = "gathering") =>
              \A i \in 1..Len(providers) :
                 workers'[w].units[i] # workers[w].units[i] =>
                    /\ workers[w].units[i].st = "pending"
                    /\ workers'[w].units[i].st \in {"returned", "raised"}
                    /\ \A j \in 1..Len(providers) :
                         j # i => workers'[w].units[j] = workers[w].units[j]]_vars

W_C18 ==
    \E t \in TaskIds :
        /\ Status(t) = "completed"
        /\ Len(StoredRaw(t)) > 2
        /\ StoredRaw(t)[1].error # None
        /\ StoredRaw(t)[2].error = None /\ StoredRaw(t)[2].text # <<>>
        /\ StoredRaw(t)[3].error # None
        /\ Len(tasks[t][1].result[1].comparison) = Len(providers)

\* Worker w has a unit whose engine call never ends.
HasStalledUnit(w) ==
    IF w <= Len(workers)
    THEN \E i \in 1..Len(workers[w].units) : workers[w].units[i].st = "stalled"
    ELSE FALSE

\* Worker wb drives another task than worker wa.
OtherTask(wa, wb) ==
    IF wa <= Len(workers) /\ wb <= Len(workers)
    THEN workers[wb].task # workers[wa].task
    ELSE FALSE

WorkerCompleted(w) ==
    IF w <= Len(workers) THEN Status(workers[w].task) = "completed" ELSE FALSE

\* No unit of worker w is still waiting for its engine call to be entered.
NoUnitPending(w) ==
    IF w <= Len(workers)
    THEN \A i \in 1..Len(workers[w].units) : workers[w].units[i].st # "pending"
    ELSE FALSE

\* C16: when an engine call of one task never ends, every other task that is
\* being processed still reaches completed, and the other units of the stalled
\* task still end.
C16_StallIsolation ==
    \A wa \in 1..MaxProcess :
        /\ \A wb \in 1..MaxProcess :
             (HasStalledUnit(wa) /\ OtherTask(wa, wb)) ~> WorkerCompleted(wb)
        /\ HasStalledUnit(wa) ~> NoUnitPending(wa)

\* The reference of the run in SpecCompare, and what was built from it.
CompareReference == find_consensus_text(fn_in)

CompareComparison == fn_out[1].comparison

CompareStatistics == fn_out[1].statistics

StoredResult(t) == tasks[t][1].result[1]

\* C22: the result stored on success holds one raw result, one comparison
\* result and one statistics entry per registered engine, each list in
\* registration order; for each engine total_characters and total_chars are the
\* length of its own raw text, differences is its diff_count and
\* processing_time is its raw result's.
C22_StoredResultPerEngine ==
    \A t \in TaskIds :
        Status(t) = "completed" =>
            LET r == StoredResult(t)
            IN  /\ Len(r.raw_results) = Len(providers)
                /\ Len(r.comparison) = Len(providers)
                /\ Len(r.statistics) = Len(providers)
                /\ \A i \in 1..Len(providers) :
                     /\ r.raw_results[i].provider_name = providers[i]
                     /\ r.comparison[i].provider_name = providers[i]
                     /\ r.statistics[i].provider_name = providers[i]
                     /\ r.comparison[i].total_characters = Len(r.raw_results[i].text)
                     /\ r.statistics[i].total_chars = Len(r.raw_results[i].text)
                     /\ r.statistics[i].differences = r.comparison[i].diff_count
                     /\ r.statistics[i].processing_time = r.raw_results[i].processing_time

W_C22 ==
    \E t \in TaskIds :
        /\ Status(t) = "completed"
        /\ Len(StoredResult(t).statistics) > 2
        /\ StoredResult(t).statistics[1].total_chars = 1
        /\ StoredResult(t).statistics[1].differences = 1
        /\ StoredResult(t).statistics[2].total_chars = 2
        /\ StoredResult(t).statistics[2].differences = 0
        /\ StoredResult(t).statistics[3].total_chars = 0
        /\ StoredResult(t).statistics[3].processing_time = 1

\* The two runs agree on the selected reference (the second engine's text is
\* the same in both by construction).
SameReference == find_consensus_text(fn_in[1]) = find_consensus_text(fn_in[2])

\* C23: in two runs with the same text of an engine and the same selected
\* reference, that engine's segments, match_count, diff_count and
\* accuracy_percent are the same, whatever the other engines returned.
C23_IndependentOfOtherEngines ==
    (fn_out # <<>> /\ SameReference) =>
        /\ fn_out[1].first[2].segments = fn_out[1].second[2].segments
        /\ fn_out[1].first[2].match_count = fn_out[1].second[2].match_count
        /\ fn_out[1].first[2].diff_count = fn_out[1].second[2].diff_count
        /\ RatioEq(fn_out[1].first[2].accuracy_percent, fn_out[1].second[2].accuracy_percent)

W_C23 ==
    /\ fn_out # <<>>
    /\ SameReference
    /\ fn_in[1][1].text # fn_in[2][1].text
    /\ fn_in[1][3].text # fn_in[2][3].text
    /\ fn_in[1][1].text # <<>> /\ fn_in[2][1].text # <<>>
    /\ fn_in[1][2].text # find_consensus_text(fn_in[1])
    /\ fn_out[1].first[2].match_count > 0
    /\ fn_out[1].first[2].diff_count > 0

\* C24: in every state a status or result query can read, a completed record
\* has its result attached (GET /api/results never answers 500), a failed
\* record has its error message attached, and a processing record has neither.
C24_NoPartialRecord ==
    \A t \in TaskIds :
        /\ Status(t) = "completed" =>
              /\ tasks[t][1].result # <<>>
              /\ get_results_response(tasks, t).code = 200
              /\ get_html_visualization_response(tasks, t).code = 200
        /\ Status(t) = "failed" => tasks[t][1].error # None
        /\ Status(t) = "processing" =>
              /\ tasks[t][1].result = <<>>
              /\ tasks[t][1].error = None

W_C24 ==
    \E t \in TaskIds :
        /\ Status(t) = "completed"
        /\ tasks[t][1].result # <<>>
        /\ ActiveWorkers(t) # {}
        /\ get_results_response(tasks, t).body = tasks[t][1].result

\* A step of GET /api/status/{task_id} or GET /api/results/{task_id}.
QueryStep ==
    \E t \in TaskIds :
        \/ get_status_route(t)
        \/ \E include_html \in BOOLEAN, html_ok \in BOOLEAN :
             get_results(t, include_html, html_ok)

\* C25: a status query or a result query leaves every task record as it was,
\* the stored result of a completed task included.
C25_QueriesReadOnly ==
    [][QueryStep => tasks' = tasks]_vars

\* The length of a longest common subsequence of two texts.
RECURSIVE LCSLength(_, _)
LCSLength(a, b) ==
    IF a = <<>> \/ b = <<>> THEN 0
    ELSE IF Head(a) = Head(b) THEN 1 + LCSLength(Tail(a), Tail(b))
    ELSE LET skip_a == LCSLength(Tail(a), b)
             skip_b == LCSLength(a, Tail(b))
         IN  IF skip_a >= skip_b THEN skip_a ELSE skip_b

\* C26: for every reference and candidate, match_count is the length of a
\* longest common subsequence of the two texts.
C26_MatchCountIsLCS ==
    fn_out # <<>> =>
        AlignAccuracy.match_count = LCSLength(AlignReference, AlignCandidate)

\* The number of line separators in a text.
RECURSIVE CountNL(_)
CountNL(text) ==
    IF text = <<>> THEN 0
    ELSE (IF Head(text) = NL THEN 1 ELSE 0) + CountNL(Tail(text))

\* The k-th line of a text (k from 1), "" when the text has fewer lines.
RECURSIVE LineOf(_, _)
LineOf(text, k) ==
    LET first == CHOOSE n \in 0..Len(text) :
                    /\ \A i \in 1..n : text[i] # NL
                    /\ n < Len(text) => text[n + 1] = NL
    IN  IF k = 1 THEN SubSeq(text, 1, first)
        ELSE IF first = Len(text) THEN <<>>
        ELSE LineOf(SubSeq(text, first + 2, Len(text)), k - 1)

\* The distinct lines the engines have at line k.
EngineVariants(k) == {LineOf(fn_in[i].text, k) : i \in 1..Len(fn_in)}

RECURSIVE JoinSide(_, _)
JoinSide(segments, key) ==
    IF segments = <<>> THEN <<>>
    ELSE Head(segments).providers_data[key] \o JoinSide(Tail(segments), key)

\* C28: for every reference and candidate, the reference-side slices of the
\* segments joined in order are the reference, and the engine-side slices
\* joined in order are the candidate.
C28_RoundTrip ==
    fn_out # <<>> =>
        /\ JoinSide(AlignSegments, "reference") = AlignReference
        /\ JoinSide(AlignSegments, AllProviders[2]) = AlignCandidate

W_C28 ==
    /\ fn_out # <<>>
    /\ Len(AlignSegments) > 2
    /\ \E k \in 1..Len(AlignSegments) : IsInsertSegment(AlignSegments[k])
    /\ \E k \in 1..Len(AlignSegments) : AlignSegments[k].segment_type = "major_diff"
    /\ \E k \in 1..Len(AlignSegments) : AlignSegments[k].segment_type = "match"
    /\ JoinSide(AlignSegments, AllProviders[2]) # JoinSide(AlignSegments, "reference")

\* C29: when at least one engine returned non-empty text, every engine whose
\* text is the selected reference (there is one) has a single match segment
\* covering the whole reference, diff_count 0, match_count equal to the length
\* of the reference and accuracy_percent 100, and every engine has a
\* match_count no larger than the length of its own text.
C29_ReferenceEngineIsPerfect ==
    (fn_out # <<>> /\ \E i \in 1..Len(fn_in) : fn_in[i].text # <<>>) =>
        /\ \E i \in 1..Len(fn_in) : fn_in[i].text = CompareReference
        /\ \A i \in 1..Len(fn_in) :
             LET comp == CompareComparison[i]
             IN  /\ comp.match_count <= Len(fn_in[i].text)
                 /\ fn_in[i].text = CompareReference =>
                      /\ Len(comp.segments) = 1
                      /\ comp.segments[1].segment_type = "match"
                      /\ comp.segments[1].text = CompareReference
                      /\ comp.segments[1].start_position = 0
                      /\ comp.segments[1].end_position = Len(CompareReference)
                      /\ comp.diff_count = 0
                      /\ comp.match_count = Len(CompareReference)
                      /\ RatioEq(comp.accuracy_percent, Ratio(100, 1))

W_C29 ==
    /\ fn_out # <<>>
    /\ Len(fn_in) > 2
    /\ fn_in[2].text = CompareReference
    /\ Len(CompareReference) > 1
    /\ fn_in[1].text # <<>> /\ fn_in[1].text # CompareReference
    /\ fn_in[3].error # None
    /\ CompareComparison[2].match_count = Len(CompareReference)
    /\ CompareComparison[1].match_count < Len(CompareReference)

\* C30: with several tasks in progress on the shared service, the result
\* stored under a task id carries that id and that task's filename, and its
\* raw results are those of the engine calls on that task's own document; a
\* step changes the record of at most one task, and only a deletion of that
\* task or a worker of that task changes it.
C30_CrossTaskIsolation ==
    /\ [](\A t \in IsolationTaskIds :
            tasks[t] # <<>> =>
                /\ tasks[t][1].filename = UploadedName(t)
                /\ tasks[t][1].result # <<>> =>
                     LET r == tasks[t][1].result[1]
                     IN  /\ r.task_id = t
                         /\ r.filename = UploadedName(t)
                         /\ Len(r.raw_results) = Len(providers)
                         /\ \A i \in 1..Len(r.raw_results) :
                              /\ r.raw_results[i].provider_name = providers[i]
                              /\ r.raw_results[i].error = None =>
                                   r.raw_results[i].text \in DocumentTexts(UploadedName(t)))
    /\ [][\A t \in IsolationTaskIds :
            tasks'[t] # tasks[t] =>
                /\ \A u \in IsolationTaskIds \ {t} : tasks'[u] = tasks[u]
                /\ \/ tasks'[t] = <<>> /\ files'[t] = NoFile
                   \/ \E w \in 1..Len(workers) :
                        /\ workers[w].task = t
                        /\ workers'[w] # workers[w]
                        /\ Finishes(w) /\ tasks'[t][1].result # tasks[t][1].result =>
                             tasks'[t][1].result[1].raw_results
                                = run_all_ocr(providers, workers[w].units)]_vars

W_C30 ==
    /\ tasks["A"] # <<>> /\ tasks["A"][1].status = "completed"
    /\ tasks["A"][1].result[1].raw_results[1].text = <<"a">>
    /\ tasks["B"] # <<>> /\ tasks["B"][1].status = "completed"
    /\ tasks["B"][1].result[1].raw_results[1].text = <<"b", "a">>
    /\ tasks["B"][1].result[1].raw_results[2].error # None

====
